---- MODULE Spec2Model ----
(***************************************************************************)
(* A model of the MCP tool hub: the resilient call client (httpWithRetry), *)
(* the credential stores, the Notion OAuth flow and the Notion tool        *)
(* handlers.                                                               *)
(*                                                                         *)
(*   SpecHttp   one httpWithRetry call, one loop iteration per step        *)
(***************************************************************************)
EXTENDS Integers, Sequences, FiniteSets, TLC

VARIABLES
    \* ---- src/utils/http.ts: one httpWithRetry call ----
    retries,      \* opts.retries ?? 3
    baseDelay,    \* opts.baseDelayMs ?? 300
    maxDelay,     \* opts.maxDelayMs ?? 3000
    attempt,      \* the loop counter
    lastErr,      \* the last caught error ("null" when none)
    hpc,          \* "loop" while the for loop runs, "returned" after a return
    ret,          \* the returned { ok, status, json } (<<>> until returned)
    statuses,     \* history: the outcome of every fetch so far (0: fetch threw)
    ra,           \* the retry-after header of the last retried response
    jitter,       \* the last draw of Math.floor(Math.random()*100)
    delay,        \* the delay of the last sleep (<<>> before the first)
    prevDelay,    \* the delay of the sleep before it (<<>> when none)
    sleeps,       \* history: the number of sleep() calls
    \* ---- src/storage/tokenStore.ts and the process around it ----
    databaseUrl,  \* config.databaseUrl is set: the Postgres stores are used
    map,          \* InMemoryTokenStore.map: key -> TokenRecord
    oauth_tokens, \* the oauth_tokens table: <<provider, subject>> -> row
    now,          \* the clock (Date.now() and the database's now()), in ms
    puts,         \* history: per key, what upsertToken was given and did
    \* ---- the Notion provider (integrations/notion.ts) and its wrapper ----
    cfg,          \* NotionConfig
    pkceByState,  \* NotionProvider.pkceByState: state -> code_verifier
    issued,       \* history: the states /auth/notion has generated
    evicted,      \* history: the states whose verifier entry was deleted
    callbacks,    \* the GET /oauth/notion/callback requests, by number
    invocations,  \* the tool invocations, by number
    arr,          \* InMemoryUsageStore.arr / the tool_usage table
    \* ---- src/index.ts: the transport session maps ----
    transports,   \* the keys of transports (streamable HTTP)
    sseTransports,\* the keys of sseTransports (legacy SSE)
    sessions,     \* history: per session id, its transport and whether it closed
    answer        \* history: how the last session request was answered

httpVars == <<retries, baseDelay, maxDelay, attempt, lastErr, hpc, ret,
              statuses, ra, jitter, delay, prevDelay, sleeps>>

storeVars == <<databaseUrl, map, oauth_tokens, now, puts>>

oauthVars == <<cfg, pkceByState, issued, evicted, callbacks>>
toolVars == <<invocations, arr>>

sessionVars == <<transports, sseTransports, sessions, answer>>

vars == <<httpVars, storeVars, oauthVars, toolVars, sessionVars>>

\* what a step of httpWithRetry leaves alone, and what a store step does
notHttpVars == <<storeVars, oauthVars, toolVars, sessionVars>>
notStoreVars == <<httpVars, oauthVars, toolVars, sessionVars>>

(***************************************************************************)
(* Bounds of the model and constants of the program.                       *)
(***************************************************************************)
MaxRetries == 3
\* the clock advances at most this many times, half a second each time
MaxTicks == 2
\* the session ids that are handed out
MaxSessions == 2
\* the callback requests followed when the OAuth flow runs alone
MaxCallbacks == 2
\* the callback requests and the tool invocations followed when both run
MaxSetupCallbacks == 1
MaxInvocations == 1

DefaultRetries == 3
DefaultBaseDelay == 300
DefaultMaxDelay == 3000
JitterRange == 100

\* opts.baseDelayMs / opts.maxDelayMs values tried
BaseDelays == {0, 99, DefaultBaseDelay}
MaxDelays == {500, DefaultMaxDelay}
\* draws of Math.floor(Math.random()*100) tried: both ends of 0..99
JitterDraws == {0, JitterRange - 1}
\* response statuses tried: 2xx, client errors, and the retryable ones
Statuses == {200, 401, 404, 429, 503, 504}

(***************************************************************************)
(* Numbers that may be NaN (parseInt of a non-numeric string).             *)
(***************************************************************************)
Num(n) == [nan |-> FALSE, ms |-> n]
NaN == [nan |-> TRUE, ms |-> 0]

Min(a, b) == IF a <= b THEN a ELSE b

RECURSIVE Pow2(_)
Pow2(k) == IF k <= 0 THEN 1 ELSE 2 * Pow2(k - 1)

(***************************************************************************)
(* Header values are strings, modelled as sequences of characters;         *)
(* res.headers.get() gives null when the header is absent.                 *)
(***************************************************************************)
Digits == <<"0", "1", "2", "3", "4", "5", "6", "7", "8", "9">>
IsDigit(c) == \E i \in 1..10 : Digits[i] = c
DigitVal(c) == (CHOOSE i \in 1..10 : Digits[i] = c) - 1

NoHeader == [present |-> FALSE, text |-> <<>>]
Header(s) == [present |-> TRUE, text |-> s]
\* retry-after values tried: absent, empty, seconds, and an HTTP date
RetryAfterValues == {NoHeader, Header(<<>>), Header(<<"2">>), Header(<<"1", "0">>),
                     Header(<<"W", "e", "d">>)}

\* parseInt(s, 10): the value of the longest prefix of decimal digits, NaN
\* when there is none (sign and leading blanks are not modelled)
RECURSIVE ParseDigits(_, _, _)
ParseDigits(s, i, acc) ==
    IF i > Len(s) \/ ~IsDigit(s[i]) THEN acc
    ELSE ParseDigits(s, i + 1, 10 * acc + DigitVal(s[i]))
ParseInt(s) ==
    IF Len(s) = 0 \/ ~IsDigit(s[1]) THEN NaN ELSE Num(ParseDigits(s, 1, 0))

\* a JavaScript string is truthy unless empty; null is falsy
Truthy(h) == h.present /\ Len(h.text) > 0

(***************************************************************************)
(* httpWithRetry                                                           *)
(***************************************************************************)
\* a list of retryable statuses that leaves out 504
RetryableStatusesWithout504 == {429, 500, 502, 503}

RetryableStatuses == {429, 500, 502, 503, 504}

\* Response.ok
ResOk(status) == status >= 200 /\ status <= 299

\* a delay that does not grow with the attempt
ComputedDelayWithoutBackoff(k, j) == Min(maxDelay, baseDelay + j)

\* Math.min(maxDelay, baseDelay * Math.pow(2, attempt) + jitter)
ComputedDelay(k, j) == Min(maxDelay, baseDelay * Pow2(k) + j)

\* a hint taken as milliseconds instead of seconds
RetryDelayInSeconds(h, k, j) ==
    IF Truthy(h) THEN ParseInt(h.text) ELSE Num(Min(maxDelay, baseDelay * Pow2(k) + j))

\* ra ? parseInt(ra, 10) * 1000 : Math.min(...)
RetryDelay(h, k, j) ==
    IF Truthy(h)
    THEN LET p == ParseInt(h.text) IN IF p.nan THEN NaN ELSE Num(p.ms * 1000)
    ELSE Num(ComputedDelay(k, j))

\* the record returned for a response
ResultOf(status) == [ok |-> ResOk(status), status |-> status]
\* { ok: false, status: 0, json: { error: String(lastErr) } }
NetworkErrorResult == [ok |-> FALSE, status |-> 0]

\* a retry of every failed response, whatever its status
ShouldRetryAnyFailure(status) == ~ResOk(status) /\ attempt < retries

\* [429, 500, 502, 503, 504].includes(res.status) && attempt < retries
ShouldRetry(status) == status \in RetryableStatuses /\ attempt < retries

\* the catch branch's attempt < retries
CanRetryError == attempt < retries

\* a continue that skips the sleep
ContinueWithoutSleep(d, hinted) ==
    /\ attempt' = attempt + 1
    /\ UNCHANGED <<delay, prevDelay, sleeps>>

\* await sleep(delay); continue
Sleep(d, hinted) ==
    /\ prevDelay' = delay
    /\ delay' = <<[nan |-> d.nan, ms |-> d.ms, hinted |-> hinted]>>
    /\ sleeps' = sleeps + 1
    /\ attempt' = attempt + 1

HttpInit ==
    /\ retries \in -1..MaxRetries
    /\ baseDelay \in BaseDelays
    /\ maxDelay \in MaxDelays
    /\ attempt = 0
    /\ lastErr = "null"
    /\ hpc = "loop"
    /\ ret = <<>>
    /\ statuses = <<>>
    /\ ra = NoHeader
    /\ jitter = 0
    /\ delay = <<>>
    /\ prevDelay = <<>>
    /\ sleeps = 0

\* the try branch: fetch answered with `status` and retry-after header h
FetchResponds ==
    \E status \in Statuses, h \in RetryAfterValues, j \in JitterDraws :
        /\ hpc = "loop"
        /\ attempt <= retries
        /\ statuses' = Append(statuses, status)
        /\ IF ShouldRetry(status)
           THEN /\ ra' = h
                /\ jitter' = IF Truthy(h) THEN jitter ELSE j
                /\ Sleep(RetryDelay(h, attempt, j), Truthy(h))
                /\ UNCHANGED <<hpc, ret>>
           ELSE /\ hpc' = "returned"
                /\ ret' = <<ResultOf(status)>>
                /\ UNCHANGED <<ra, jitter, delay, prevDelay, sleeps, attempt>>
        /\ UNCHANGED <<retries, baseDelay, maxDelay, lastErr, notHttpVars>>

\* the catch branch: fetch (or res.text()) threw
FetchThrows ==
    \E j \in JitterDraws :
        /\ hpc = "loop"
        /\ attempt <= retries
        /\ statuses' = Append(statuses, 0)
        /\ lastErr' = "fetch failed"
        /\ IF CanRetryError
           THEN /\ ra' = NoHeader
                /\ jitter' = j
                /\ Sleep(Num(ComputedDelay(attempt, j)), FALSE)
                /\ UNCHANGED <<hpc, ret>>
           ELSE /\ hpc' = "returned"
                /\ ret' = <<NetworkErrorResult>>
                /\ UNCHANGED <<ra, jitter, delay, prevDelay, sleeps, attempt>>
        /\ UNCHANGED <<retries, baseDelay, maxDelay, notHttpVars>>

\* the return after the loop: reached only when the loop body never ran
LoopExit ==
    /\ hpc = "loop"
    /\ attempt > retries
    /\ hpc' = "returned"
    /\ ret' = <<NetworkErrorResult>>
    /\ UNCHANGED <<retries, baseDelay, maxDelay, attempt, lastErr, statuses,
                   ra, jitter, delay, prevDelay, sleeps, notHttpVars>>

\* no httpWithRetry call is being followed
HttpIdle ==
    /\ retries = DefaultRetries
    /\ baseDelay = DefaultBaseDelay
    /\ maxDelay = DefaultMaxDelay
    /\ attempt = 0
    /\ lastErr = "null"
    /\ hpc = "idle"
    /\ ret = <<>>
    /\ statuses = <<>>
    /\ ra = NoHeader
    /\ jitter = 0
    /\ delay = <<>>
    /\ prevDelay = <<>>
    /\ sleeps = 0


(***************************************************************************)
(* JavaScript values.  A string-valued property is a string, or one of the *)
(* two markers for undefined and null.                                     *)
(***************************************************************************)
Undefined == "undefined"
Null == "null"
\* x ?? y
Coalesce(x, y) == IF x \in {Undefined, Null} THEN y ELSE x
\* x || y
OrElse(x, y) == IF x \in {Undefined, Null, ""} THEN y ELSE x

(***************************************************************************)
(* Timestamps.  An instant is a number of milliseconds.  A timestamp       *)
(* string is modelled by what it prints: the seconds, and the milliseconds *)
(* when it prints a fractional part.                                       *)
(***************************************************************************)
MsPerSecond == 1000
TickMs == MsPerSecond \div 2
NoTime(k) == [kind |-> k, sec |-> 0, ms |-> 0, frac |-> FALSE]
\* new Date(t).toISOString(): YYYY-MM-DDTHH:MM:SS.mmmZ
ToISOString(t) == [kind |-> "time", sec |-> t \div MsPerSecond, ms |-> t % MsPerSecond, frac |-> TRUE]
\* to_char(ts at time zone 'UTC', 'YYYY-MM-DD"T"HH24:MI:SS"Z"'): whole seconds
ToChar(t) == [kind |-> "time", sec |-> t \div MsPerSecond, ms |-> 0, frac |-> FALSE]
\* new Date(string).getTime()
DateParse(str) == str.sec * MsPerSecond + str.ms

(***************************************************************************)
(* The JSON body of a token endpoint response, kept as TokenRecord.raw.    *)
(***************************************************************************)
NoScope == [kind |-> Undefined, items |-> <<>>]
ScopeString(str) == [kind |-> "string", items |-> <<str>>]
ScopeArray(items) == [kind |-> "array", items |-> items]

JsonBody(at, rt, sc, wid, wname, bot) ==
    [kind |-> "object", access_token |-> at, refresh_token |-> rt, scope |-> sc,
     workspace_id |-> wid, workspace_name |-> wname, bot_id |-> bot]
EmptyBody(k) ==
    [kind |-> k, access_token |-> Undefined, refresh_token |-> Undefined, scope |-> NoScope,
     workspace_id |-> Undefined, workspace_name |-> Undefined, bot_id |-> Undefined]
\* an empty response text: json = null
NullBody == EmptyBody(Null)
\* no raw payload given
NoRaw == EmptyBody(Undefined)

(***************************************************************************)
(* TokenRecord and the two token stores.                                   *)
(***************************************************************************)
TokenRecord(subject, at, rt, exp, sc, wid, wname, bot, raw) ==
    [provider |-> "notion", subject |-> subject, access_token |-> at, refresh_token |-> rt,
     expires_at |-> exp, scope |-> sc, workspace_id |-> wid, workspace_name |-> wname,
     bot_id |-> bot, raw |-> raw,
     created_at |-> NoTime(Undefined), updated_at |-> NoTime(Undefined)]

\* a key made of the provider alone
MapKeyWithoutSubject(provider, subject) == provider \o ":"

\* `${provider}:${subject}`
MapKey(provider, subject) == provider \o ":" \o subject

\* a Map or table with one entry set
Put(f, k, v) == [x \in DOMAIN f \cup {k} |-> IF x = k THEN v ELSE f[x]]

\* a created_at kept from the record given, not from the entry stored
InMemoryUpsertForgetsCreatedAt(m, record, t) ==
    Put(m, MapKey(record.provider, record.subject),
        [record EXCEPT !.updated_at = ToISOString(t), !.created_at = ToISOString(t)])

\* InMemoryTokenStore.upsertToken
InMemoryUpsert(m, record, t) ==
    LET key == MapKey(record.provider, record.subject)
        created == IF key \in DOMAIN m /\ m[key].created_at.kind = "time"
                   THEN m[key].created_at
                   ELSE ToISOString(t)
    IN Put(m, key, [record EXCEPT !.updated_at = ToISOString(t), !.created_at = created])

\* InMemoryTokenStore.getToken: the record, or null (<<>>)
InMemoryGet(m, provider, subject) ==
    IF MapKey(provider, subject) \in DOMAIN m THEN <<m[MapKey(provider, subject)]>> ELSE <<>>

\* the value bound to a text column: x ?? null
TextParam(x) == Coalesce(x, Null)
\* the value bound to expires_at: record.expires_at ? new Date(record.expires_at) : null
ExpiresParam(str) == IF str.kind = "time" THEN [kind |-> "time", t |-> DateParse(str)]
                     ELSE [kind |-> Null, t |-> 0]
\* record.raw ?? null
RawParam(raw) == IF raw.kind = Undefined THEN NullBody ELSE raw

\* PostgresTokenStore.upsertToken: insert ... on conflict (provider, subject) do update
PostgresUpsert(table, record, t) ==
    LET key == <<record.provider, record.subject>>
        created == IF key \in DOMAIN table THEN table[key].created_at ELSE t
    IN Put(table, key,
           [provider |-> record.provider, subject |-> record.subject,
            access_token |-> record.access_token,
            refresh_token |-> TextParam(record.refresh_token),
            expires_at |-> ExpiresParam(record.expires_at),
            scope |-> TextParam(record.scope),
            workspace_id |-> TextParam(record.workspace_id),
            workspace_name |-> TextParam(record.workspace_name),
            bot_id |-> TextParam(record.bot_id),
            raw |-> RawParam(record.raw),
            created_at |-> created, updated_at |-> t])

\* PostgresTokenStore.getToken: rows[0] || null
PostgresGet(table, provider, subject) ==
    IF <<provider, subject>> \in DOMAIN table
    THEN LET row == table[<<provider, subject>>] IN
         <<[provider |-> row.provider, subject |-> row.subject,
            access_token |-> row.access_token, refresh_token |-> row.refresh_token,
            expires_at |-> IF row.expires_at.kind = Null THEN NoTime(Null)
                           ELSE ToChar(row.expires_at.t),
            scope |-> row.scope, workspace_id |-> row.workspace_id,
            workspace_name |-> row.workspace_name, bot_id |-> row.bot_id, raw |-> row.raw,
            created_at |-> ToChar(row.created_at), updated_at |-> ToChar(row.updated_at)]>>
    ELSE <<>>

\* tokenStore.getToken(provider, subject), whichever store index.ts built
GetToken(provider, subject) ==
    IF databaseUrl THEN PostgresGet(oauth_tokens, provider, subject)
    ELSE InMemoryGet(map, provider, subject)

\* the timestamps of the record a get returned (<<>> for null)
Stamps(got) ==
    IF got = <<>> THEN <<>>
    ELSE <<[created_at |-> got[1].created_at, updated_at |-> got[1].updated_at]>>

\* who calls upsertToken: a caller of the store's interface, callback
\* request c, or tool invocation i
Caller == <<"caller", 0>>
ByCallback(c) == <<"callback", c>>
ByInvocation(i) == <<"invocation", i>>

\* a store in which the first record of a key stays
UpsertTokenKeepsFirst(record, by) ==
    /\ IF GetToken(record.provider, record.subject) # <<>>
       THEN oauth_tokens' = oauth_tokens /\ map' = map
       ELSE IF databaseUrl
       THEN oauth_tokens' = PostgresUpsert(oauth_tokens, record, now) /\ map' = map
       ELSE map' = InMemoryUpsert(map, record, now) /\ oauth_tokens' = oauth_tokens
    /\ puts' = Put(puts, <<record.provider, record.subject>>,
                   [given |-> record,
                    before |-> Stamps(GetToken(record.provider, record.subject)),
                    by |-> by])

\* tokenStore.upsertToken(record), called by `by`
UpsertTokenBy(record, by) ==
    /\ IF databaseUrl
       THEN oauth_tokens' = PostgresUpsert(oauth_tokens, record, now) /\ map' = map
       ELSE map' = InMemoryUpsert(map, record, now) /\ oauth_tokens' = oauth_tokens
    /\ puts' = Put(puts, <<record.provider, record.subject>>,
                   [given |-> record,
                    before |-> Stamps(GetToken(record.provider, record.subject)),
                    by |-> by])

\* tokenStore.upsertToken(record)
UpsertToken(record) == UpsertTokenBy(record, Caller)

\* the stores as index.ts constructs them
StoreEmpty ==
    /\ map = <<>>
    /\ oauth_tokens = <<>>
    /\ now = 0
    /\ puts = <<>>

StoreInit == databaseUrl \in BOOLEAN /\ StoreEmpty

\* time passes
Tick ==
    /\ now < MaxTicks * TickMs
    /\ now' = now + TickMs
    /\ UNCHANGED <<databaseUrl, map, oauth_tokens, puts, notStoreVars>>

\* the store is not in use
StoreIdle ==
    /\ databaseUrl = FALSE
    /\ map = <<>>
    /\ oauth_tokens = <<>>
    /\ now = 0
    /\ puts = <<>>

\* the tenants and the records tried at the store's interface
Subjects == {"default", "ws1"}
ExpiryStrings == {NoTime(Undefined), ToISOString(MsPerSecond + TickMs),
                  [kind |-> "time", sec |-> 1, ms |-> 0, frac |-> FALSE]}
StoreRecords ==
    {TokenRecord(subject, at, rt, exp, Undefined, Undefined, Undefined, Undefined, NoRaw) :
        subject \in Subjects, at \in {"a1"}, rt \in {Undefined, "r1"},
        exp \in ExpiryStrings}

\* a caller writes a record
StoreUpsert ==
    \E record \in StoreRecords :
        /\ UpsertToken(record)
        /\ UNCHANGED <<databaseUrl, now, notStoreVars>>

(***************************************************************************)
(* The Notion provider: configuration and the values of its environment.   *)
(***************************************************************************)
Tools == {"getSelf", "search", "fetchPage", "queryDatabase", "createPage"}
\* values Math.random().toString(36).slice(2) takes; a request may carry none ("")
States == {"s1", "s2"}
\* a state parameter /auth/notion never issued
ForgedState == "s0"
Codes == {"", "code"}
\* args.subject of a tool invocation
SubjectArgs == {Undefined, "ws1"}

\* the requests followed, by number
CallbackIds == DOMAIN callbacks
InvocationIds == DOMAIN invocations

\* NotionConfig as index.ts builds it: staticToken is config.notion.staticToken || undefined
Config(clientId, staticToken, usePkce) ==
    [clientId |-> clientId, clientSecret |-> "client-secret",
     redirectUri |-> "https://hub/oauth/notion/callback",
     staticToken |-> staticToken, usePkce |-> usePkce]
\* the deployments tried: client-secret OAuth on either store, proof-key
\* OAuth, a static token, and OAuth left unconfigured
Deployments ==
    {<<Config("client-id", Undefined, FALSE), FALSE>>,
     <<Config("client-id", Undefined, FALSE), TRUE>>,
     <<Config("client-id", Undefined, TRUE), FALSE>>,
     <<Config("client-id", "static-token", FALSE), FALSE>>,
     <<Config("", Undefined, FALSE), FALSE>>}

\* what httpWithRetry returns, with the parsed body
WithJson(res, json) == [ok |-> res.ok, status |-> res.status, json |-> json]

\* bodies of the token endpoint: an exchange for a workspace with a refresh
\* token and one that names no workspace and gives none; a refresh that
\* returns the access token alone and one that returns every field
ExchangeBodies ==
    {JsonBody("a1", "r1", ScopeArray(<<"read", "write">>), "ws1", "Workspace One", "bot1"),
     JsonBody("a0", Undefined, ScopeString("read"), Undefined, Undefined, Undefined)}
RefreshBodies ==
    {JsonBody("a2", Undefined, NoScope, Undefined, Undefined, Undefined),
     JsonBody("a3", "r3", ScopeString("read"), "ws1", "Workspace One", "bot3")}
ErrorBody == EmptyBody("object")

\* outcomes of httpWithRetry("POST", .../oauth/token, ..., { retries: 1 })
TokenFailures == {WithJson(ResultOf(400), ErrorBody), WithJson(NetworkErrorResult, ErrorBody)}
ExchangeResults == {WithJson(ResultOf(200), b) : b \in ExchangeBodies \cup {NullBody}} \cup TokenFailures
RefreshResults == {WithJson(ResultOf(200), b) : b \in RefreshBodies \cup {NullBody}} \cup TokenFailures
\* outcomes of notionFetch: httpWithRetry(..., { retries: 3 })
NotionResults == {ResultOf(200), ResultOf(401), ResultOf(503)}

\* a JavaScript string used as a condition
TruthyString(x) == x \notin {Undefined, Null, ""}

\* Array.prototype.join
RECURSIVE Join(_, _)
Join(items, sep) ==
    IF Len(items) = 0 THEN ""
    ELSE IF Len(items) = 1 THEN items[1]
    ELSE items[1] \o sep \o Join(Tail(items), sep)

\* json.scope when it is not an array
ScopeValue(sc) == IF sc.kind = "string" THEN sc.items[1] ELSE Undefined

\* the TokenRecord the callback builds from the token response
CallbackRecord(json) ==
    TokenRecord(OrElse(json.workspace_id, "default"),
                json.access_token,
                json.refresh_token,
                NoTime(Undefined),
                IF json.scope.kind = "array" THEN Join(json.scope.items, " ")
                ELSE OrElse(ScopeValue(json.scope), Null),
                json.workspace_id, json.workspace_name, json.bot_id, json)

\* a refreshed record filed under the default tenant
RefreshedRecordForDefault(old, refreshed) ==
    TokenRecord("default", refreshed.access_token,
                Coalesce(refreshed.refresh_token, old.refresh_token),
                NoTime(Undefined), Null,
                Coalesce(refreshed.workspace_id, old.workspace_id),
                Coalesce(refreshed.workspace_name, old.workspace_name),
                Coalesce(refreshed.bot_id, old.bot_id), refreshed)

\* a refreshed record that takes every field from the response alone
RefreshedRecordWithoutMerge(old, refreshed) ==
    TokenRecord(old.subject, refreshed.access_token, refreshed.refresh_token,
                NoTime(Undefined),
                IF refreshed.scope.kind = "array" THEN Join(refreshed.scope.items, " ")
                ELSE OrElse(ScopeValue(refreshed.scope), Null),
                refreshed.workspace_id, refreshed.workspace_name, refreshed.bot_id, refreshed)

\* the TokenRecord upsertFromRefresh builds
RefreshedRecord(old, refreshed) ==
    TokenRecord(old.subject,
                refreshed.access_token,
                Coalesce(refreshed.refresh_token, old.refresh_token),
                NoTime(Undefined),
                IF refreshed.scope.kind = "array" THEN Join(refreshed.scope.items, " ")
                ELSE OrElse(OrElse(ScopeValue(refreshed.scope), old.scope), Null),
                Coalesce(refreshed.workspace_id, old.workspace_id),
                Coalesce(refreshed.workspace_name, old.workspace_name),
                Coalesce(refreshed.bot_id, old.bot_id),
                refreshed)

(***************************************************************************)
(* mountOAuth: GET /auth/notion and GET /oauth/notion/callback             *)
(***************************************************************************)
\* the states requests have carried
Presented == {callbacks[c].state : c \in {d \in CallbackIds : callbacks[d].pc # "idle"}}

\* [...Array(64)].map(() => Math.random().toString(36)[2]).join('')
CodeVerifier(state) == "verifier-" \o state

NoCallback ==
    [pc |-> "idle", code |-> "", state |-> "", verifier |-> Undefined, auth |-> "none",
     known |-> FALSE, recorded |-> FALSE, replay |-> FALSE, exchange |-> "none", response |-> 0,
     wrote |-> FALSE, subject |-> Undefined]

\* GET /auth/notion
Authorize ==
    /\ IF TruthyString(cfg.staticToken)
       THEN \* 200: static token mode, OAuth not required
            UNCHANGED <<pkceByState, issued>>
       ELSE IF cfg.clientId = "" \/ cfg.redirectUri = ""
       THEN \* 400: OAuth not configured
            UNCHANGED <<pkceByState, issued>>
       ELSE \* a state no one has seen; redirect to the consent page
            \E state \in States \ (issued \cup Presented) :
                /\ issued' = issued \cup {state}
                /\ pkceByState' = IF cfg.usePkce
                                  THEN Put(pkceByState, state, CodeVerifier(state))
                                  ELSE pkceByState
    /\ UNCHANGED <<cfg, evicted, callbacks, toolVars, storeVars, httpVars, sessionVars>>

\* this.pkceByState.get(state) is a verifier
HasVerifier(state) == state \in DOMAIN pkceByState /\ TruthyString(pkceByState[state])

\* a finally block that deletes nothing
EvictNothing(state) == UNCHANGED <<pkceByState, evicted>>

\* finally { if (state) this.pkceByState.delete(state); }
Evict(state) ==
    IF state # "" /\ state \in DOMAIN pkceByState
    THEN /\ pkceByState' = [x \in DOMAIN pkceByState \ {state} |-> pkceByState[x]]
         /\ evicted' = Append(evicted, state)
    ELSE UNCHANGED <<pkceByState, evicted>>

\* the request ends with this status
Respond(req, status) == [req EXCEPT !.pc = "done", !.response = status]

\* GET /oauth/notion/callback, up to the await of the token exchange.
\* Requests are numbered in the order they arrive.
CallbackArrives ==
    \E c \in CallbackIds, code \in Codes, state \in {"", ForgedState} \cup issued :
        /\ callbacks[c].pc = "idle"
        /\ \A d \in CallbackIds : d < c => callbacks[d].pc # "idle"
        /\ LET req == [callbacks[c] EXCEPT
                          !.code = code, !.state = state,
                          !.known = state \in issued,
                          !.recorded = HasVerifier(state),
                          !.replay = \E d \in CallbackIds :
                                        /\ callbacks[d].pc = "done"
                                        /\ callbacks[d].wrote
                                        /\ callbacks[d].state = state]
           IN IF code = ""
              THEN /\ callbacks' = [callbacks EXCEPT ![c] = Respond(req, 400)]
                   /\ UNCHANGED <<pkceByState, evicted>>
              ELSE IF cfg.usePkce
              THEN IF ~HasVerifier(state)
                   THEN /\ callbacks' = [callbacks EXCEPT ![c] = Respond(req, 400)]
                        /\ Evict(state)
                   ELSE /\ callbacks' = [callbacks EXCEPT ![c] =
                               [req EXCEPT !.pc = "exchange", !.auth = "code_verifier",
                                           !.verifier = pkceByState[state]]]
                        /\ UNCHANGED <<pkceByState, evicted>>
              ELSE /\ callbacks' = [callbacks EXCEPT ![c] =
                          [req EXCEPT !.pc = "exchange", !.auth = "basic"]]
                   /\ UNCHANGED <<pkceByState, evicted>>
        /\ UNCHANGED <<cfg, issued, toolVars, storeVars, httpVars, sessionVars>>

\* the token exchange answers: the rest of the callback handler
ExchangeResponds ==
    \E c \in CallbackIds, res \in ExchangeResults :
        /\ callbacks[c].pc = "exchange"
        /\ IF ~res.ok
           THEN \* throw new Error("Notion token exchange failed ..."), caught: 500
                /\ callbacks' = [callbacks EXCEPT ![c] =
                       Respond([callbacks[c] EXCEPT !.exchange = "failed"], 500)]
                /\ UNCHANGED storeVars
           ELSE IF res.json.kind = Null
           THEN \* json.workspace_id of null throws a TypeError, caught: 500
                /\ callbacks' = [callbacks EXCEPT ![c] =
                       Respond([callbacks[c] EXCEPT !.exchange = "empty"], 500)]
                /\ UNCHANGED storeVars
           ELSE /\ UpsertTokenBy(CallbackRecord(res.json), ByCallback(c))
                /\ callbacks' = [callbacks EXCEPT ![c] =
                       Respond([callbacks[c] EXCEPT !.exchange = "ok", !.wrote = TRUE,
                                   !.subject = CallbackRecord(res.json).subject], 200)]
                /\ UNCHANGED <<databaseUrl, now>>
        /\ Evict(callbacks[c].state)
        /\ UNCHANGED <<cfg, issued, toolVars, httpVars, sessionVars>>

\* the provider as constructed, with n callback requests to come
OAuthInit(n) ==
    /\ pkceByState = <<>>
    /\ issued = {}
    /\ evicted = <<>>
    /\ callbacks = [c \in 1..n |-> NoCallback]

(***************************************************************************)
(* The tool handlers (getSelf, search, fetchPage, queryDatabase,           *)
(* createPage: the same steps with another endpoint) inside the wrapper    *)
(* Provider.registerAll puts around them.                                  *)
(***************************************************************************)
NoInvocation ==
    [pc |-> "idle", tool |-> "", subject |-> Undefined, token |-> Undefined, rec |-> <<>>,
     first |-> -1, second |-> -1, refresh |-> "none", calls |-> <<>>, refreshes |-> <<>>,
     refreshAuth |-> "none", wrote |-> FALSE, outcome |-> "none", error |-> ""]

\* a getAccessToken that does not test the record it read
GetAccessTokenUnchecked(subject) ==
    [threw |-> FALSE, token |-> Undefined, rec |-> <<>>, message |-> ""]

\* a getAccessToken that reads the store even when a static token is set
GetAccessTokenFromStore(subject) ==
    LET s == OrElse(subject, "default")
        rec == GetToken("notion", s)
    IN IF rec = <<>>
       THEN IF TruthyString(cfg.staticToken)
            THEN [threw |-> FALSE, token |-> cfg.staticToken, rec |-> <<>>, message |-> ""]
            ELSE [threw |-> TRUE, token |-> Undefined, rec |-> <<>>,
                  message |-> "No Notion token for subject '" \o s \o
                              "'. Visit /auth/notion or set NOTION_STATIC_TOKEN."]
       ELSE [threw |-> FALSE, token |-> rec[1].access_token, rec |-> rec, message |-> ""]

\* getAccessToken(subject)
GetAccessToken(subject) ==
    IF TruthyString(cfg.staticToken)
    THEN [threw |-> FALSE, token |-> cfg.staticToken, rec |-> <<>>, message |-> ""]
    ELSE LET s == OrElse(subject, "default")
             rec == GetToken("notion", s)
         IN IF rec = <<>>
            THEN [threw |-> TRUE, token |-> Undefined, rec |-> <<>>,
                  message |-> "No Notion token for subject '" \o s \o
                              "'. Visit /auth/notion or set NOTION_STATIC_TOKEN."]
            ELSE [threw |-> FALSE, token |-> rec[1].access_token, rec |-> rec, message |-> ""]

\* a refresh request that always carries the Basic header
RefreshAuthAlwaysBasic == "basic"

\* refresh: if (!this.cfg.usePkce) headers["Authorization"] = basicAuthHeader(...)
RefreshAuth == IF ~cfg.usePkce THEN "basic" ELSE "none"

\* a refresh on 403 instead of 401
NeedsRefreshOn403(res, rec) ==
    ~res.ok /\ res.status = 403 /\ rec # <<>> /\ TruthyString(rec[1].refresh_token)

\* a refresh for any record, with or without a refresh token
NeedsRefreshWithoutToken(res, rec) == ~res.ok /\ res.status = 401 /\ rec # <<>>

\* !res.ok && res.status === 401 && rec?.refresh_token
NeedsRefresh(res, rec) ==
    ~res.ok /\ res.status = 401 /\ rec # <<>> /\ TruthyString(rec[1].refresh_token)

\* the wrapper's usage.log call for an invocation that ended
UsageRecord(inv, success, message) ==
    [provider |-> "notion", tool_name |-> inv.tool, success |-> success,
     error_message |-> IF success THEN Undefined ELSE message]

\* a wrapper that turns a result into an error
ReturnsAsError(i, inv) ==
    /\ invocations' = [invocations EXCEPT ![i] =
           [inv EXCEPT !.pc = "done", !.outcome = "error", !.error = "wrapped"]]
    /\ arr' = Append(arr, UsageRecord(inv, TRUE, ""))

\* the handler returned: log success = true, return out
Returns(i, inv) ==
    /\ invocations' = [invocations EXCEPT ![i] = [inv EXCEPT !.pc = "done", !.outcome = "result"]]
    /\ arr' = Append(arr, UsageRecord(inv, TRUE, ""))

\* a wrapper that rethrows without logging
ThrowsUnlogged(i, inv, message) ==
    /\ invocations' = [invocations EXCEPT ![i] =
           [inv EXCEPT !.pc = "done", !.outcome = "error", !.error = message]]
    /\ arr' = arr

\* the handler threw: log success = false, throw e
Throws(i, inv, message) ==
    /\ invocations' = [invocations EXCEPT ![i] =
           [inv EXCEPT !.pc = "done", !.outcome = "error", !.error = message]]
    /\ arr' = Append(arr, UsageRecord(inv, FALSE, message))

\* a handler that throws whatever the response
ConcludeAlwaysThrows(i, inv, res) == Throws(i, inv, inv.tool \o " failed")

\* if (!res.ok) throw new Error("<tool> failed: ..."); return { content: ... }
Conclude(i, inv, res) ==
    IF ~res.ok THEN Throws(i, inv, inv.tool \o " failed") ELSE Returns(i, inv)

\* a tool is invoked: getAccessToken and the first notionFetch are issued.
\* Invocations are numbered in the order they start.
InvokeTool ==
    \E i \in InvocationIds, tool \in Tools, subject \in SubjectArgs :
        /\ invocations[i].pc = "idle"
        /\ \A j \in InvocationIds : j < i => invocations[j].pc # "idle"
        /\ LET got == GetAccessToken(subject)
               inv == [invocations[i] EXCEPT !.tool = tool, !.subject = subject]
           IN IF got.threw
              THEN Throws(i, inv, got.message)
              ELSE /\ invocations' = [invocations EXCEPT ![i] =
                          [inv EXCEPT !.pc = "call1", !.token = got.token, !.rec = got.rec,
                                      !.calls = <<got.token>>]]
                   /\ arr' = arr
        /\ UNCHANGED <<oauthVars, storeVars, httpVars, sessionVars>>

\* the first notionFetch answers: conclude, or start the refresh
FirstCallAnswers ==
    \E i \in InvocationIds, res \in NotionResults :
        /\ invocations[i].pc = "call1"
        /\ LET inv == [invocations[i] EXCEPT !.first = res.status]
           IN IF NeedsRefresh(res, inv.rec)
              THEN /\ invocations' = [invocations EXCEPT ![i] =
                          [inv EXCEPT !.pc = "refresh",
                                      !.refreshes = <<inv.rec[1].refresh_token>>,
                                      !.refreshAuth = RefreshAuth]]
                   /\ arr' = arr
              ELSE Conclude(i, inv, res)
        /\ UNCHANGED <<oauthVars, storeVars, httpVars, sessionVars>>

\* a handler that issues the second call without persisting the new record
RefreshAnswersWithoutPersist ==
    \E i \in InvocationIds, res \in RefreshResults :
        /\ invocations[i].pc = "refresh"
        /\ IF ~res.ok
           THEN Throws(i, [invocations[i] EXCEPT !.refresh = "failed"], "Notion refresh failed")
           ELSE IF res.json.kind = Null
           THEN Throws(i, [invocations[i] EXCEPT !.refresh = "empty"], "TypeError")
           ELSE /\ invocations' = [invocations EXCEPT ![i] =
                       [@ EXCEPT !.pc = "call2", !.refresh = "ok",
                                 !.token = res.json.access_token,
                                 !.calls = Append(@, res.json.access_token)]]
                /\ arr' = arr
        /\ UNCHANGED <<storeVars, oauthVars, httpVars, sessionVars>>

\* a handler that goes on to the second call when the refresh fails
RefreshAnswersRetriesAnyway ==
    \E i \in InvocationIds, res \in RefreshResults :
        /\ invocations[i].pc = "refresh"
        /\ IF ~res.ok \/ res.json.kind = Null
           THEN /\ invocations' = [invocations EXCEPT ![i] =
                       [@ EXCEPT !.pc = "call2", !.refresh = "failed",
                                 !.calls = Append(@, invocations[i].token)]]
                /\ arr' = arr
                /\ UNCHANGED storeVars
           ELSE /\ UpsertTokenBy(RefreshedRecord(invocations[i].rec[1], res.json), ByInvocation(i))
                /\ invocations' = [invocations EXCEPT ![i] =
                       [@ EXCEPT !.pc = "call2", !.refresh = "ok", !.wrote = TRUE,
                                 !.token = res.json.access_token,
                                 !.calls = Append(@, res.json.access_token)]]
                /\ arr' = arr
                /\ UNCHANGED <<databaseUrl, now>>
        /\ UNCHANGED <<oauthVars, httpVars, sessionVars>>

\* the refresh answers: throw, or upsertFromRefresh and the second notionFetch
RefreshAnswers ==
    \E i \in InvocationIds, res \in RefreshResults :
        /\ invocations[i].pc = "refresh"
        /\ IF ~res.ok
           THEN \* throw new Error("Notion refresh failed ...")
                /\ Throws(i, [invocations[i] EXCEPT !.refresh = "failed"], "Notion refresh failed")
                /\ UNCHANGED storeVars
           ELSE IF res.json.kind = Null
           THEN \* refreshed.access_token of null throws a TypeError
                /\ Throws(i, [invocations[i] EXCEPT !.refresh = "empty"], "TypeError")
                /\ UNCHANGED storeVars
           ELSE /\ UpsertTokenBy(RefreshedRecord(invocations[i].rec[1], res.json), ByInvocation(i))
                /\ invocations' = [invocations EXCEPT ![i] =
                       [@ EXCEPT !.pc = "call2", !.refresh = "ok", !.wrote = TRUE,
                                 !.token = res.json.access_token,
                                 !.calls = Append(@, res.json.access_token)]]
                /\ arr' = arr
                /\ UNCHANGED <<databaseUrl, now>>
        /\ UNCHANGED <<oauthVars, httpVars, sessionVars>>

\* a second answer of 401 that starts the refresh over
SecondCallRefreshesAgain ==
    \E i \in InvocationIds, res \in NotionResults :
        /\ invocations[i].pc = "call2"
        /\ LET inv == [invocations[i] EXCEPT !.second = res.status]
           IN IF NeedsRefresh(res, inv.rec) /\ Len(inv.refreshes) < 2
              THEN /\ invocations' = [invocations EXCEPT ![i] =
                          [inv EXCEPT !.pc = "refresh",
                                      !.refreshes = Append(@, inv.rec[1].refresh_token)]]
                   /\ arr' = arr
              ELSE Conclude(i, inv, res)
        /\ UNCHANGED <<oauthVars, storeVars, httpVars, sessionVars>>

\* the second notionFetch answers
SecondCallAnswers ==
    \E i \in InvocationIds, res \in NotionResults :
        /\ invocations[i].pc = "call2"
        /\ Conclude(i, [invocations[i] EXCEPT !.second = res.status], res)
        /\ UNCHANGED <<oauthVars, storeVars, httpVars, sessionVars>>

\* n tool invocations to come
ToolInit(n) ==
    /\ invocations = [i \in 1..n |-> NoInvocation]
    /\ arr = <<>>

\* the provider is not in use
AppIdle ==
    /\ cfg = [clientId |-> "", clientSecret |-> "", redirectUri |-> "",
              staticToken |-> Undefined, usePkce |-> FALSE]
    /\ pkceByState = <<>>
    /\ issued = {}
    /\ evicted = <<>>
    /\ callbacks = <<>>
    /\ invocations = <<>>
    /\ arr = <<>>

(***************************************************************************)
(* upsertFromRefresh on its own: applied to any record the store can hold  *)
(* and any refresh response.                                               *)
(***************************************************************************)
ByRefresh == <<"upsertFromRefresh", 0>>

\* records as the callback builds them, with and without an expiry
PriorRecords ==
    {[CallbackRecord(b) EXCEPT !.expires_at = exp] : b \in ExchangeBodies, exp \in ExpiryStrings}

\* refresh responses: those of RefreshBodies, and one with a scope array
MergeBodies ==
    RefreshBodies \cup
    {JsonBody("a4", Undefined, ScopeArray(<<"read", "comment">>), Undefined, "Renamed", Undefined)}

\* a record is in the store before the refresh
PriorUpsert ==
    \E record \in PriorRecords :
        /\ UpsertToken(record)
        /\ UNCHANGED <<databaseUrl, now, notStoreVars>>

\* upsertFromRefresh(old, refreshed) for a record read from the store
UpsertFromRefresh ==
    \E subject \in Subjects, refreshed \in MergeBodies :
        /\ GetToken("notion", subject) # <<>>
        /\ UpsertTokenBy(RefreshedRecord(GetToken("notion", subject)[1], refreshed), ByRefresh)
        /\ UNCHANGED <<databaseUrl, now, notStoreVars>>

(***************************************************************************)
(* The usage stores: log and stats.  arr is the array of the in-memory     *)
(* store and, with a database, the rows of tool_usage in order of id.      *)
(***************************************************************************)
\* the records followed when the usage store is used alone
MaxLogged == 3

\* provider and tool names logged: this hub's provider and a second one
UsageProviders == {"notion", "github"}
UsageTools == {"getSelf", "search"}
LoggedRecords ==
    {[provider |-> p, tool_name |-> t, success |-> ok,
      error_message |-> IF ok THEN Undefined ELSE t \o " failed"] :
        p \in UsageProviders, t \in UsageTools, ok \in BOOLEAN}

\* a key made of the tool name alone
UsageKeyWithoutProvider(provider, tool_name) == tool_name

\* `${r.provider}:${r.tool_name}` and provider||':'||tool_name
UsageKey(provider, tool_name) == provider \o ":" \o tool_name

\* counts[k] = (counts[k] || 0) + 1
Increment(counts, k) == Put(counts, k, (IF k \in DOMAIN counts THEN counts[k] ELSE 0) + 1)

\* the loop of InMemoryUsageStore.stats over the records
RECURSIVE ByProviderOf(_)
ByProviderOf(log) ==
    IF log = <<>> THEN <<>>
    ELSE Increment(ByProviderOf(SubSeq(log, 1, Len(log) - 1)), log[Len(log)].provider)
RECURSIVE ByToolOf(_)
ByToolOf(log) ==
    IF log = <<>> THEN <<>>
    ELSE Increment(ByToolOf(SubSeq(log, 1, Len(log) - 1)),
                   UsageKey(log[Len(log)].provider, log[Len(log)].tool_name))

\* InMemoryUsageStore.stats
InMemoryStats(log) ==
    [total |-> Len(log), byProvider |-> ByProviderOf(log), byTool |-> ByToolOf(log)]

\* select ..., count(*) from tool_usage group by ...: the rows of one group
RowsWhere(rows, Test(_)) == {n \in DOMAIN rows : Test(rows[n])}

\* PostgresUsageStore.stats: three queries, and one assignment per row returned
PostgresStats(rows) ==
    LET providers == {rows[n].provider : n \in DOMAIN rows}
        groups == {<<rows[n].provider, rows[n].tool_name>> : n \in DOMAIN rows}
        keys == {UsageKey(g[1], g[2]) : g \in groups}
        CountOf(g) == LET InGroup(r) == r.provider = g[1] /\ r.tool_name = g[2]
                      IN Cardinality(RowsWhere(rows, InGroup))
    IN [total |-> Len(rows),
        byProvider |-> [p \in providers |->
                           LET OfProvider(r) == r.provider = p
                           IN Cardinality(RowsWhere(rows, OfProvider))],
        byTool |-> [k \in keys |->
                       CountOf(CHOOSE g \in groups : UsageKey(g[1], g[2]) = k)]]

\* usageStore.stats(), whichever store index.ts built
Stats == IF databaseUrl THEN PostgresStats(arr) ELSE InMemoryStats(arr)

\* usageStore.log(rec)
UsageLog ==
    \E rec \in LoggedRecords :
        /\ Len(arr) < MaxLogged
        /\ arr' = Append(arr, rec)
        /\ UNCHANGED <<invocations, oauthVars, storeVars, httpVars, sessionVars>>

(***************************************************************************)
(* src/index.ts: the transport session maps.  The requests are those that  *)
(* passed requireSharedSecret.                                             *)
(***************************************************************************)
\* the session ids randomUUID() and SSEServerTransport can hand out
SessionId(n) == <<"session", n>>
SessionIds == {SessionId(n) : n \in 1..MaxSessions}
\* req.headers['mcp-session-id'] / req.query.sessionId when it is missing
NoSessionId == <<"undefined", 0>>
SessionIdGiven == SessionIds \cup {NoSessionId}

NoSession == [kind |-> "none", open |-> FALSE, removed |-> 0]
FreshSessionIds == {s \in SessionIds : sessions[s].kind = "none"}

\* the response to a session request; closed: the session it names had
\* closed when the request arrived
Answer(route, sessionId, status) ==
    <<[route |-> route, sessionId |-> sessionId, status |-> status,
       closed |-> /\ sessionId \in SessionIds
                  /\ sessions[sessionId].kind # "none"
                  /\ ~sessions[sessionId].open]>>

\* no session has been opened
SessionsIdle ==
    /\ transports = {}
    /\ sseTransports = {}
    /\ sessions = [s \in SessionIds |-> NoSession]
    /\ answer = <<>>

SessionsQuiet == UNCHANGED <<httpVars, storeVars, oauthVars, toolVars>>

\* app.post('/mcp'): a known session id reaches its transport; otherwise
\* only an initialize request is served, by a new transport whose
\* onsessioninitialized stores it under the generated id
McpPost ==
    \E sessionId \in SessionIdGiven, isInitialize \in BOOLEAN :
        /\ IF sessionId # NoSessionId /\ sessionId \in transports
           THEN /\ answer' = Answer("POST /mcp", sessionId, "handleRequest")
                /\ UNCHANGED <<transports, sessions>>
           ELSE IF ~isInitialize
           THEN /\ answer' = Answer("POST /mcp", sessionId, "400")
                /\ UNCHANGED <<transports, sessions>>
           ELSE \E sid \in FreshSessionIds :
                /\ transports' = transports \cup {sid}
                /\ sessions' = [sessions EXCEPT ![sid] =
                       [kind |-> "streamable", open |-> TRUE, removed |-> 0]]
                /\ answer' = Answer("POST /mcp", sid, "handleRequest")
        /\ UNCHANGED sseTransports
        /\ SessionsQuiet

\* handleSessionRequest (GET and DELETE /mcp): an id that is not a key of
\* transports is answered 400, any other reaches its transport.  The
\* transport ends its session on DELETE; nothing in index.ts listens for
\* that, and transports has no delete.
HandleSessionRequest ==
    \E method \in {"GET", "DELETE"}, sessionId \in SessionIdGiven :
        /\ IF sessionId = NoSessionId \/ sessionId \notin transports
           THEN /\ answer' = Answer(method \o " /mcp", sessionId, "400")
                /\ UNCHANGED sessions
           ELSE /\ answer' = Answer(method \o " /mcp", sessionId, "handleRequest")
                /\ sessions' = IF method = "DELETE"
                               THEN [sessions EXCEPT ![sessionId].open = FALSE]
                               ELSE sessions
        /\ UNCHANGED <<transports, sseTransports>>
        /\ SessionsQuiet

\* app.get('/sse'): the new transport is stored under its session id
SseConnect ==
    \E sid \in FreshSessionIds :
        /\ sseTransports' = sseTransports \cup {sid}
        /\ sessions' = [sessions EXCEPT ![sid] =
               [kind |-> "sse", open |-> TRUE, removed |-> 0]]
        /\ answer' = Answer("GET /sse", sid, "connect")
        /\ UNCHANGED transports
        /\ SessionsQuiet

\* res.on('close') of a GET /sse response: delete sseTransports[sessionId]
SseClose ==
    \E sid \in SessionIds :
        /\ sessions[sid].kind = "sse"
        /\ sessions[sid].open
        /\ sseTransports' = sseTransports \ {sid}
        /\ sessions' = [sessions EXCEPT ![sid] =
               [kind |-> "sse", open |-> FALSE,
                removed |-> IF sid \in sseTransports THEN @.removed + 1
                                                     ELSE @.removed]]
        /\ UNCHANGED <<transports, answer>>
        /\ SessionsQuiet

\* app.post('/messages'): served by the transport stored under the id
MessagesPost ==
    \E sessionId \in SessionIdGiven :
        /\ answer' = Answer("POST /messages", sessionId,
                            IF sessionId \in sseTransports
                            THEN "handlePostMessage" ELSE "400")
        /\ UNCHANGED <<transports, sseTransports, sessions>>
        /\ SessionsQuiet

(***************************************************************************)
(* The specifications.                                                     *)
(***************************************************************************)
InitUsage == StoreInit /\ HttpIdle /\ AppIdle /\ SessionsIdle

UsageNext == UsageLog

SpecUsage == InitUsage /\ [][UsageNext]_vars

InitMerge == StoreInit /\ HttpIdle /\ AppIdle /\ SessionsIdle

MergeNext == PriorUpsert \/ UpsertFromRefresh \/ Tick

SpecMerge == InitMerge /\ [][MergeNext]_vars

InitHttp == HttpInit /\ StoreIdle /\ AppIdle /\ SessionsIdle

HttpNext == FetchResponds \/ FetchThrows \/ LoopExit

SpecHttp == InitHttp /\ [][HttpNext]_vars

InitStore == StoreInit /\ HttpIdle /\ AppIdle /\ SessionsIdle

StoreNext == StoreUpsert \/ Tick

SpecStore == InitStore /\ [][StoreNext]_vars

\* the session routes alone
InitSessions == StoreIdle /\ HttpIdle /\ AppIdle /\ SessionsIdle

SessionsNext ==
    McpPost \/ HandleSessionRequest \/ SseConnect \/ SseClose \/ MessagesPost

SpecSessions == InitSessions /\ [][SessionsNext]_vars

\* the OAuth flow alone, within one tick of the clock
InitOAuth ==
    /\ \E d \in Deployments : cfg = d[1] /\ databaseUrl = d[2]
    /\ StoreEmpty /\ OAuthInit(MaxCallbacks) /\ ToolInit(0) /\ HttpIdle /\ SessionsIdle

OAuthNext == Authorize \/ CallbackArrives \/ ExchangeResponds

SpecOAuth == InitOAuth /\ [][OAuthNext]_vars

\* the tool handlers alongside the callbacks that fill the store; without
\* proof keys GET /auth/notion writes nothing the handlers or the callback read
ToolDeployments == {d \in Deployments : ~d[1].usePkce /\ d[1].clientId # ""}

\* both authentication modes: the whole flow from GET /auth/notion to the
\* tool handlers, for the deployments that use OAuth, on the in-memory store
AuthDeployments ==
    {d \in Deployments :
        d[1].clientId # "" /\ ~TruthyString(d[1].staticToken) /\ ~d[2]}

InitAuth ==
    /\ \E d \in AuthDeployments : cfg = d[1] /\ databaseUrl = d[2]
    /\ StoreEmpty /\ OAuthInit(MaxSetupCallbacks) /\ ToolInit(MaxInvocations) /\ HttpIdle /\ SessionsIdle

AuthNext ==
    \/ Authorize
    \/ CallbackArrives
    \/ ExchangeResponds
    \/ InvokeTool
    \/ FirstCallAnswers
    \/ RefreshAnswers
    \/ SecondCallAnswers

SpecAuth == InitAuth /\ [][AuthNext]_vars

\* a server started on a database that holds the rows of an earlier run: two
\* tenants, each with its own access and refresh token
MaxTenantCallbacks == 1
MaxTenantInvocations == 1

EarlierRows ==
    PostgresUpsert(
        PostgresUpsert(<<>>,
            CallbackRecord(JsonBody("a1", "r1", ScopeArray(<<"read", "write">>),
                                    "ws1", "Workspace One", "bot1")), 0),
        CallbackRecord(JsonBody("d1", "dr1", ScopeString("read"),
                                Undefined, Undefined, Undefined)), 0)

InitTenants ==
    /\ cfg = Config("client-id", Undefined, FALSE)
    /\ databaseUrl = TRUE
    /\ map = <<>>
    /\ oauth_tokens = EarlierRows
    /\ now = 0
    /\ puts = <<>>
    /\ OAuthInit(MaxTenantCallbacks) /\ ToolInit(MaxTenantInvocations) /\ HttpIdle /\ SessionsIdle

Init ==
    /\ \E d \in ToolDeployments : cfg = d[1] /\ databaseUrl = d[2]
    /\ StoreEmpty /\ OAuthInit(MaxSetupCallbacks) /\ ToolInit(MaxInvocations) /\ HttpIdle /\ SessionsIdle

Next ==
    \/ CallbackArrives
    \/ ExchangeResponds
    \/ InvokeTool
    \/ FirstCallAnswers
    \/ RefreshAnswers
    \/ SecondCallAnswers

Spec == Init /\ [][Next]_vars

SpecTenants == InitTenants /\ [][Next]_vars

\* the same server with tool invocations only
MaxRacers == 2

InitRace ==
    /\ cfg = Config("client-id", Undefined, FALSE)
    /\ databaseUrl = TRUE
    /\ map = <<>>
    /\ oauth_tokens = EarlierRows
    /\ now = 0
    /\ puts = <<>>
    /\ OAuthInit(0) /\ ToolInit(MaxRacers) /\ HttpIdle /\ SessionsIdle

RaceNext ==
    \/ InvokeTool
    \/ FirstCallAnswers
    \/ RefreshAnswers
    \/ SecondCallAnswers

SpecRace == InitRace /\ [][RaceNext]_vars

\* calls that run to their end: one httpWithRetry call, or the tool
\* invocations of a server started on a database with rows.  Every fetch
\* answers or fails, every sleep ends, and every awaited store or token
\* request settles.
InitLive ==
    \/ HttpInit /\ StoreIdle /\ AppIdle /\ SessionsIdle
    \/ /\ cfg \in {d[1] : d \in ToolDeployments}
       /\ databaseUrl = TRUE
       /\ map = <<>>
       /\ oauth_tokens = EarlierRows
       /\ now = 0
       /\ puts = <<>>
       /\ OAuthInit(0) /\ ToolInit(MaxInvocations) /\ HttpIdle /\ SessionsIdle

LiveNext ==
    \/ FetchResponds
    \/ FetchThrows
    \/ LoopExit
    \/ InvokeTool
    \/ FirstCallAnswers
    \/ RefreshAnswers
    \/ SecondCallAnswers

\* a step that moves invocation i past an await
Settles(i) ==
    /\ i \in InvocationIds
    /\ invocations[i].pc \in {"call1", "refresh", "call2"}
    /\ FirstCallAnswers \/ RefreshAnswers \/ SecondCallAnswers
    /\ invocations'[i] # invocations[i]

Fairness ==
    /\ WF_vars(FetchResponds \/ FetchThrows)
    /\ WF_vars(LoopExit)
    /\ \A i \in 1..MaxInvocations : WF_vars(Settles(i))

SpecLive == InitLive /\ [][LiveNext]_vars /\ Fairness

(***************************************************************************)
(* Properties of httpWithRetry (checked under SpecHttp).                   *)
(***************************************************************************)
\* the statuses the specification calls retryable; 0 stands for a network failure
SpecRetryable == {429, 500, 502, 503, 504}
Transient(st) == st \in SpecRetryable \/ st = 0
AllTransient == \A i \in 1..Len(statuses) : Transient(statuses[i])
LastStatus == statuses[Len(statuses)]

\* C2 (retry exhaustion): with retries = r >= 0 and every attempt ending in a
\* retryable status or a network failure, the call goes on until it has made
\* exactly r + 1 attempts and then returns (it does not throw) a result with
\* ok = false and the last observed status (0 after a network failure).
RetryExhaustion ==
    (retries >= 0 /\ AllTransient) =>
        /\ Len(statuses) <= retries + 1
        /\ Len(statuses) < retries + 1 => hpc = "loop" /\ ret = <<>>
        /\ Len(statuses) = retries + 1 =>
              /\ hpc = "returned"
              /\ ret = <<[ok |-> FALSE, status |-> LastStatus]>>

RetryExhaustionWitness ==
    /\ retries = 2
    /\ hpc = "returned"
    /\ statuses = <<503, 0, 504>>

\* C3 (retry success): no attempt follows a response that is not retryable;
\* when the call returns such a response, one delay was slept for every
\* retryable outcome before it; and with retries = 3 an upstream answering
\* 503, 503, 200 is asked exactly three times, with two delays, and the
\* result is ok = true, status = 200.
Scenario503 == <<503, 503, 200>>
RetrySuccess ==
    /\ \A i \in 1..(Len(statuses) - 1) : Transient(statuses[i])
    /\ (hpc = "returned" /\ Len(statuses) > 0 /\ ~Transient(LastStatus)) =>
          sleeps = Len(statuses) - 1
    /\ (retries = 3 /\ Len(statuses) <= 3 /\ statuses = SubSeq(Scenario503, 1, Len(statuses))) =>
          /\ sleeps = Min(Len(statuses), 2)
          /\ Len(statuses) < 3 => hpc = "loop"
          /\ Len(statuses) = 3 => hpc = "returned" /\ ret = <<[ok |-> TRUE, status |-> 200]>>

RetrySuccessWitness ==
    /\ retries = 3
    /\ statuses = Scenario503
    /\ hpc = "returned"
    /\ sleeps = 2

\* C4 (non-retryable statuses): a response with a non-2xx status outside
\* {429, 500, 502, 503, 504} is the last attempt: the call has returned
\* ok = false with that status, and no delay followed it.
NonRetryable(st) == st # 0 /\ ~(st >= 200 /\ st <= 299) /\ st \notin SpecRetryable
NonRetryableReturnedAtOnce ==
    \A i \in 1..Len(statuses) :
        NonRetryable(statuses[i]) =>
            /\ i = Len(statuses)
            /\ hpc = "returned"
            /\ ret = <<[ok |-> FALSE, status |-> statuses[i]]>>
            /\ sleeps = i - 1

NonRetryableWitness ==
    /\ retries = 3
    /\ statuses = <<503, 401>>
    /\ hpc = "returned"

\* two successive sleeps, both without a server wait hint
BothComputed ==
    /\ delay # <<>> /\ ~delay[1].hinted
    /\ prevDelay # <<>> /\ ~prevDelay[1].hinted
NeverAboveMaxDelay == (delay # <<>> /\ ~delay[1].hinted) => delay[1].ms <= maxDelay

\* C5 as stated (backoff monotonicity for every baseDelay >= 0): successive
\* delays computed without a wait hint never decrease, and none exceeds maxDelay.
BackoffMonotoneForEveryBase ==
    /\ NeverAboveMaxDelay
    /\ BothComputed => prevDelay[1].ms <= delay[1].ms

\* C5 as amended: the delays computed without a wait hint never exceed
\* maxDelay, and they never decrease when baseDelay is at least 99, the
\* largest jitter draw.
BackoffMonotoneFromJitterUp ==
    /\ NeverAboveMaxDelay
    /\ (baseDelay >= JitterRange - 1 /\ BothComputed) => prevDelay[1].ms <= delay[1].ms

BackoffWitness ==
    /\ baseDelay = DefaultBaseDelay
    /\ maxDelay = DefaultMaxDelay
    /\ BothComputed
    /\ sleeps = 3
    /\ prevDelay[1].ms < delay[1].ms
    /\ delay[1].ms = 1200 + (JitterRange - 1)

\* C6 (server wait hint): the delay slept after a retryable response that
\* carries Retry-After: h is h * 1000 ms; after a response without the header,
\* and after a network failure, it is the computed exponential delay.
ServerWaitHint ==
    delay # <<>> =>
        /\ ra = Header(<<"2">>) => delay[1].ms = 2000 /\ ~delay[1].nan
        /\ ra = Header(<<"1", "0">>) => delay[1].ms = 10000 /\ ~delay[1].nan
        /\ ~ra.present =>
              /\ ~delay[1].nan
              /\ delay[1].ms = Min(maxDelay, baseDelay * Pow2(attempt - 1) + jitter)

ServerWaitHintWitness ==
    /\ delay # <<>>
    /\ ra = Header(<<"1", "0">>)
    /\ delay[1].ms = 10000
    /\ maxDelay = DefaultMaxDelay
    /\ statuses = <<429>>

(***************************************************************************)
(* Properties of the token stores (checked under SpecStore).               *)
(***************************************************************************)
StoredKeys == DOMAIN puts
Got(key) == GetToken(key[1], key[2])
TextFields == {"provider", "subject", "access_token", "refresh_token", "scope",
               "workspace_id", "workspace_name", "bot_id"}

\* the record read back agrees with the record written on the fields the
\* caller supplied; two timestamp strings agree when they name the same instant
AgreesWithGiven(got, given) ==
    /\ \A f \in TextFields : given[f] # Undefined => got[f] = given[f]
    /\ given.raw.kind # Undefined => got.raw = given.raw
    /\ given.expires_at.kind = "time" =>
          /\ got.expires_at.kind = "time"
          /\ DateParse(got.expires_at) = DateParse(given.expires_at)

\* C10 as stated (upsert-then-get round trip): get returns the record of the
\* most recent upsert of the key, equal on every field the caller supplied;
\* created_at is what it was before that upsert, and updated_at has not
\* decreased.
UpsertGetRoundTrip ==
    \A key \in StoredKeys :
        /\ Got(key) # <<>>
        /\ AgreesWithGiven(Got(key)[1], puts[key].given)
        /\ puts[key].before # <<>> =>
              /\ Got(key)[1].created_at = puts[key].before[1].created_at
              /\ DateParse(Got(key)[1].updated_at) >= DateParse(puts[key].before[1].updated_at)

(***************************************************************************)
(* Properties of the tool handlers (checked under Spec).                   *)
(***************************************************************************)
\* the first call of an invocation was answered 401 while the record it read
\* held a refresh token
Rejected(inv) ==
    /\ inv.first = 401
    /\ inv.rec # <<>>
    /\ TruthyString(inv.rec[1].refresh_token)

Ended(inv) == inv.pc = "done"

Completes(c) == callbacks[c].pc # "done" /\ callbacks'[c].pc = "done"

\* this step leaves every stored credential as it was
NoCredentialWrite == UNCHANGED <<map, oauth_tokens>>

\* what getToken("notion", subject) returns after this step
StoredAfter(subject) ==
    IF databaseUrl THEN PostgresGet(oauth_tokens', "notion", subject)
    ELSE InMemoryGet(map', "notion", subject)

\* callback request c ends in this step with an error and without a write
FailsWithoutWrite(c) == callbacks'[c].response >= 400 /\ NoCredentialWrite

\* C7 (PKCE state integrity): in proof-key mode a callback whose state had
\* no recorded verifier when it arrived ends with an error and no store
\* write; a callback with a code whose state had a recorded verifier and
\* whose exchange returns a token object ends with 200 and its record in the
\* store; a callback that arrives after a callback with the same state has
\* written ends with an error and no store write.
PkceStateIntegrity ==
    [][cfg.usePkce =>
        \A c \in CallbackIds :
            Completes(c) =>
                LET req == callbacks'[c] IN
                /\ ~req.recorded => FailsWithoutWrite(c)
                /\ req.recorded /\ req.code # "" /\ req.exchange = "ok" =>
                      /\ req.response = 200
                      /\ req.subject \in Subjects
                      /\ StoredAfter(req.subject) # <<>>
                      /\ puts'[<<"notion", req.subject>>].given.raw.kind = "object"
                /\ req.replay => FailsWithoutWrite(c)]_vars

\* in proof-key mode one callback wrote a credential and a later one with the
\* same state was refused
PkceStateIntegrityWitness ==
    /\ cfg.usePkce
    /\ \E c, d \in CallbackIds :
          /\ callbacks[c].pc = "done" /\ callbacks[c].recorded /\ callbacks[c].wrote
          /\ callbacks[c].response = 200
          /\ callbacks[d].pc = "done" /\ callbacks[d].replay /\ ~callbacks[d].recorded
          /\ callbacks[d].state = callbacks[c].state
          /\ callbacks[d].code # "" /\ callbacks[d].response = 400 /\ ~callbacks[d].wrote

\* C8 as stated (callback writes nothing on error): in either mode a callback
\* with a missing code, a missing state, a state /auth/notion never issued,
\* or a failed token exchange ends with an error response and leaves the
\* credential store unchanged.
CallbackErrorsWriteNothing ==
    [][\A c \in CallbackIds :
          Completes(c) =>
              LET req == callbacks'[c] IN
              (req.code = "" \/ req.state = "" \/ ~req.known \/ req.exchange = "failed")
                  => FailsWithoutWrite(c)]_vars

\* no element occurs twice
NoDuplicates(seq) == \A m, n \in DOMAIN seq : seq[m] = seq[n] => m = n

\* C9 as stated (verifier eviction): once a callback request carrying state
\* s has ended, whatever its outcome, the state-to-verifier map has no entry
\* for s; and no entry is removed twice.
VerifierEvicted ==
    /\ \A c \in CallbackIds :
          callbacks[c].pc = "done" /\ callbacks[c].state # "" =>
              callbacks[c].state \notin DOMAIN pkceByState
    /\ NoDuplicates(evicted)

(***************************************************************************)
(* More properties of the token stores (checked under SpecStore).          *)
(***************************************************************************)
\* type Provider = 'notion'
Providers == {"notion"}
\* the tenants looked up: those written, and names that differ from them by
\* a prefix, by the separator of the in-memory key, or by being empty
LookupSubjects == Subjects \cup {"", "ws", "ws1:", "notion:ws1", "default:ws1"}
LookupKeys == Providers \X LookupSubjects

\* what get(key) returns once upsertToken(record) has run in this state
GotAfterUpsert(record, key) ==
    IF databaseUrl
    THEN PostgresGet(PostgresUpsert(oauth_tokens, record, now), key[1], key[2])
    ELSE InMemoryGet(InMemoryUpsert(map, record, now), key[1], key[2])

\* C11 (exact-key lookup): in every reachable store state get(p, t) returns
\* null when no upsert with provider p and subject t has happened and
\* otherwise a record with provider p and subject t; and whatever record is
\* upserted next, get returns the same as before for every other key.
ExactKeyLookup ==
    \A key \in LookupKeys :
        /\ key \notin StoredKeys => Got(key) = <<>>
        /\ key \in StoredKeys =>
              /\ Got(key) # <<>>
              /\ Got(key)[1].provider = key[1]
              /\ Got(key)[1].subject = key[2]
        /\ \A record \in StoreRecords :
              key # <<record.provider, record.subject>> =>
                  GotAfterUpsert(record, key) = Got(key)

\* ws1 has been written twice and default never: get finds the one and not
\* the other
ExactKeyLookupWitness ==
    /\ <<"notion", "ws1">> \in StoredKeys
    /\ puts[<<"notion", "ws1">>].before # <<>>
    /\ <<"notion", "default">> \notin StoredKeys
    /\ Got(<<"notion", "ws1">>) # <<>>
    /\ Got(<<"notion", "default">>) = <<>>

(***************************************************************************)
(* More properties of the tool handlers (checked under Spec).              *)
(***************************************************************************)
\* invocation i starts in this step
Starts(i) == invocations[i].pc = "idle" /\ invocations'[i].pc # "idle"

\* the tenant an invocation is for: args.subject || "default"
TenantOf(inv) == OrElse(inv.subject, "default")

\* C12 (missing credential): a tool invoked for tenant t while the store has
\* no record for (notion, t) and no static token is configured ends at once
\* with an error whose message names t, having made no upstream call, no
\* refresh request and no store write.
MissingCredential ==
    [][\A i \in InvocationIds :
          Starts(i) =>
              LET inv == invocations'[i]
                  t == TenantOf(inv)
              IN ~TruthyString(cfg.staticToken) /\ GetToken("notion", t) = <<>> =>
                    /\ inv.pc = "done" /\ inv.outcome = "error"
                    /\ inv.error = "No Notion token for subject '" \o t \o
                                   "'. Visit /auth/notion or set NOTION_STATIC_TOKEN."
                    /\ inv.calls = <<>> /\ inv.refreshes = <<>> /\ ~inv.wrote
                    /\ NoCredentialWrite]_vars

\* a tool was invoked for ws1 while only default had a record
MissingCredentialWitness ==
    /\ ~TruthyString(cfg.staticToken)
    /\ GetToken("notion", "default") # <<>>
    /\ GetToken("notion", "ws1") = <<>>
    /\ \E i \in InvocationIds :
          /\ Ended(invocations[i])
          /\ invocations[i].subject = "ws1"
          /\ invocations[i].outcome = "error"
          /\ invocations[i].calls = <<>>
          /\ invocations[i].error =
                "No Notion token for subject 'ws1'. Visit /auth/notion or set NOTION_STATIC_TOKEN."

\* the access tokens a refresh can return
RefreshedTokens == {b.access_token : b \in RefreshBodies}

\* invocation i persists its refreshed record in this step
Persists(i) == invocations[i].pc = "refresh" /\ invocations'[i].pc = "call2"

\* invocation i ends in this step
Finishes(i) == invocations[i].pc # "done" /\ invocations'[i].pc = "done"

\* C13 (refresh and succeed): when the stored access token of tenant t is
\* answered 401, the record has a refresh token and the refresh returns a
\* token object, the step that persists it leaves the record of (notion, t)
\* holding the access token the refresh returned; when the upstream then
\* accepts that token the invocation returns a result, and the record still
\* holds that token unless someone else has written the record since.
RefreshAndSucceed ==
    [][\A i \in InvocationIds :
          LET inv == invocations'[i]
              t == TenantOf(inv)
          IN /\ Persists(i) =>
                   /\ Rejected(inv)
                   /\ inv.token \in RefreshedTokens
                   /\ StoredAfter(t) # <<>>
                   /\ StoredAfter(t)[1].access_token = inv.token
             /\ Finishes(i) /\ inv.refresh = "ok" /\ inv.second = 200 =>
                   /\ inv.outcome = "result"
                   /\ StoredAfter(t) # <<>>
                   /\ puts[<<"notion", t>>].by = ByInvocation(i) =>
                         StoredAfter(t)[1].access_token = inv.token]_vars

\* an invocation for ws1 was answered 401, refreshed, was answered 200 and
\* returned; the store holds the refreshed access token in place of the old
RefreshAndSucceedWitness ==
    \E i \in InvocationIds :
        LET inv == invocations[i] IN
        /\ Ended(inv) /\ Rejected(inv)
        /\ inv.subject = "ws1"
        /\ inv.refresh = "ok" /\ inv.second = 200 /\ inv.outcome = "result"
        /\ inv.rec[1].access_token = "a1"
        /\ inv.token = "a2"
        /\ Got(<<"notion", "ws1">>) # <<>>
        /\ Got(<<"notion", "ws1">>)[1].access_token = "a2"

(***************************************************************************)
(* Properties of upsertFromRefresh (checked under SpecMerge).              *)
(***************************************************************************)
Absent(x) == x \in {Undefined, Null}
\* equal, or both absent
Same(x, y) == x = y \/ (Absent(x) /\ Absent(y))
\* two timestamps name the same instant, or both are absent
SameInstant(x, y) ==
    IF x.kind = "time" /\ y.kind = "time" THEN DateParse(x) = DateParse(y)
    ELSE Absent(x.kind) /\ Absent(y.kind)

\* upsertFromRefresh runs for this key in this step
Merges(key) ==
    /\ key \in DOMAIN puts'
    /\ puts'[key].by = ByRefresh
    /\ <<map, oauth_tokens, puts>>' # <<map, oauth_tokens, puts>>
    /\ StoredAfter(key[2]) # Got(key) \/ puts'[key] # puts[key]

\* the text fields upsertFromRefresh merges with ??
MergedFields == {"refresh_token", "workspace_id", "workspace_name", "bot_id"}

\* the record read after the refresh keeps old's value of every text field
\* and of the scope the response omits, and takes the response's otherwise
MergesTextFields(old, new, refreshed) ==
    /\ new.access_token = refreshed.access_token
    /\ \A f \in MergedFields :
          IF Absent(refreshed[f]) THEN Same(new[f], old[f]) ELSE new[f] = refreshed[f]
    /\ IF refreshed.scope.kind = "array" THEN new.scope = Join(refreshed.scope.items, " ")
       ELSE IF refreshed.scope.kind = "string" THEN new.scope = refreshed.scope.items[1]
       ELSE Same(new.scope, old.scope)

HandlerReturned(inv) ==
    \/ Len(inv.calls) = 1 /\ inv.first = 200
    \/ Len(inv.calls) = 2 /\ inv.second = 200

EndedInvocations == {i \in InvocationIds : Ended(invocations[i])}

HandlerError(inv) ==
    IF inv.calls = <<>>
    THEN "No Notion token for subject '" \o TenantOf(inv) \o
         "'. Visit /auth/notion or set NOTION_STATIC_TOKEN."
    ELSE IF inv.refresh = "failed" THEN "Notion refresh failed"
    ELSE IF inv.refresh = "empty" THEN "TypeError"
    ELSE inv.tool \o " failed"

RECURSIVE SumOver(_, _)
\* the sum of counts[k] over the keys k in S
SumOver(counts, S) ==
    IF S = {} THEN 0
    ELSE LET k == CHOOSE x \in S : TRUE IN counts[k] + SumOver(counts, S \ {k})

Successes == Cardinality({n \in DOMAIN arr : arr[n].success})
Failures == Cardinality({n \in DOMAIN arr : ~arr[n].success})

\* the keys of byTool that belong to provider p
ToolKeysOf(p, byTool) == {k \in DOMAIN byTool : \E t \in UsageTools : k = p \o ":" \o t}

\* C17 (usage aggregation): after N successful and M failed logged
\* invocations stats() has total = N + M, the counts of byProvider sum to
\* total, the counts of byTool sum to total, and the count of each provider
\* is the sum of the counts of its provider:tool keys.
UsageAggregation ==
    /\ Stats.total = Successes + Failures
    /\ SumOver(Stats.byProvider, DOMAIN Stats.byProvider) = Stats.total
    /\ SumOver(Stats.byTool, DOMAIN Stats.byTool) = Stats.total
    /\ \A p \in DOMAIN Stats.byProvider :
          Stats.byProvider[p] = SumOver(Stats.byTool, ToolKeysOf(p, Stats.byTool))

\* two providers, a tool both have, a success and failures
UsageAggregationWitness ==
    /\ Successes = 1 /\ Failures = 2
    /\ Stats.total = 3
    /\ DOMAIN Stats.byProvider = UsageProviders
    /\ Stats.byTool = [k \in {"notion:search", "github:search"} |->
                          IF k = "notion:search" THEN 2 ELSE 1]

(***************************************************************************)
(* Properties of concurrent invocations and callbacks (checked under       *)
(* SpecTenants).                                                           *)
(***************************************************************************)
\* invocation i takes a step
Moves(i) == invocations'[i] # invocations[i]

PersistStep(i) == RefreshAnswers /\ Persists(i)

\* pairs of invocations for the same tenant, both answered 401 on a record
\* with a refresh token
RacingPairs ==
    {pair \in InvocationIds \X InvocationIds :
        /\ pair[1] # pair[2]
        /\ Rejected(invocations[pair[1]]) /\ Rejected(invocations[pair[2]])
        /\ TenantOf(invocations[pair[1]]) = TenantOf(invocations[pair[2]])}

\* C19 (unserialized same-tenant refreshes): of two invocations for one
\* tenant that were both answered 401, each sends its own refresh request;
\* while both await their refresh either one can persist next, so both
\* orders occur; once both have persisted the store holds the record of the
\* one that persisted last; and each sends its second call with the access
\* token of its own refresh response, whichever token the store holds.
UnserializedRefreshes ==
    \A pair \in RacingPairs :
        LET i == pair[1]
            j == pair[2]
            inv == invocations[i]
            key == <<"notion", TenantOf(inv)>>
        IN /\ inv.pc # "call1" => inv.refreshes = <<inv.rec[1].refresh_token>>
           /\ inv.pc = "refresh" /\ invocations[j].pc = "refresh" =>
                 (ENABLED PersistStep(i)) /\ (ENABLED PersistStep(j))
           /\ inv.wrote =>
                 /\ inv.token \in RefreshedTokens
                 /\ inv.calls = <<inv.rec[1].access_token, inv.token>>
           /\ inv.wrote /\ invocations[j].wrote =>
                 \E k \in InvocationIds :
                     /\ puts[key].by = ByInvocation(k)
                     /\ invocations[k].wrote
                     /\ TenantOf(invocations[k]) = TenantOf(inv)
                     /\ Got(key)[1].access_token = invocations[k].token

\* two invocations for ws1 refreshed; the one that started first persisted
\* last, so the store holds its token a2 while the other sent a3
UnserializedRefreshesWitness ==
    /\ Cardinality(InvocationIds) >= 2
    /\ <<1, 2>> \in RacingPairs
    /\ invocations[1].subject = "ws1"
    /\ invocations[1].calls = <<"a1", "a2">>
    /\ invocations[2].calls = <<"a1", "a3">>
    /\ puts[<<"notion", "ws1">>].by = ByInvocation(1)
    /\ Got(<<"notion", "ws1">>)[1].access_token = "a2"
    /\ Ended(invocations[2]) /\ invocations[2].outcome = "result"

\* C20: whenever a session of either transport has closed, its entry has
\* been removed from the session map exactly once, its id is in neither
\* map, and a request that named it after it closed was answered 400.
ClosedSessions ==
    {s \in SessionIds : sessions[s].kind # "none" /\ ~sessions[s].open}

SessionMapCleanup ==
    /\ \A s \in ClosedSessions :
           /\ s \notin transports \cup sseTransports
           /\ sessions[s].removed = 1
    /\ answer # <<>> /\ answer[1].closed => answer[1].status = "400"

\* the legacy SSE half of it, which the code keeps
SseMapCleanup ==
    /\ \A s \in ClosedSessions :
           sessions[s].kind = "sse" =>
               s \notin sseTransports /\ sessions[s].removed = 1
    /\ answer # <<>> /\ answer[1].closed /\ answer[1].route = "POST /messages"
           => answer[1].status = "400"

\* C21: every token exchange the callback sends carries either the Basic
\* authorization header or the verifier recorded for its state, never both
\* and never neither, and every refresh request carries the Basic header if
\* and only if proof-key mode is off.
SentExchange(c) == callbacks[c].pc = "exchange" \/ callbacks[c].exchange # "none"
SentRefresh(i) == invocations[i].refreshes # <<>>

ExclusiveAuth ==
    /\ \A c \in CallbackIds :
           SentExchange(c) =>
               LET basic == callbacks[c].auth = "basic"
                   proof == callbacks[c].verifier # Undefined
               IN /\ basic # proof
                  /\ basic <=> ~cfg.usePkce
                  /\ proof => /\ callbacks[c].state \in issued
                              /\ callbacks[c].verifier = CodeVerifier(callbacks[c].state)
    /\ \A i \in InvocationIds :
           SentRefresh(i) => (invocations[i].refreshAuth = "basic" <=> ~cfg.usePkce)

ExclusiveAuthWitness ==
    /\ cfg.usePkce
    /\ \E c \in CallbackIds :
           callbacks[c].exchange = "ok" /\ callbacks[c].verifier # Undefined
    /\ \E i \in InvocationIds :
           SentRefresh(i) /\ invocations[i].refreshAuth = "none"

\* C22: every httpWithRetry call eventually returns, and every tool
\* invocation that has started eventually ends with a result or an error,
\* having sent at most two upstream calls and at most one refresh request.
Pending(i) == i \in InvocationIds /\ invocations[i].pc \in {"call1", "refresh", "call2"}
Over(i) ==
    /\ i \in InvocationIds
    /\ invocations[i].pc = "done"
    /\ invocations[i].outcome \in {"result", "error"}
SendsBounded ==
    \A i \in InvocationIds :
        Len(invocations[i].calls) <= 2 /\ Len(invocations[i].refreshes) <= 1

RunsToEnd ==
    /\ (hpc = "loop") ~> (hpc = "returned" /\ ret # <<>>)
    /\ \A i \in 1..MaxInvocations : Pending(i) ~> Over(i)
    /\ []SendsBounded

RunsToEndWitness ==
    \/ hpc = "returned" /\ Len(statuses) = retries + 1 /\ retries = MaxRetries
    \/ \E i \in InvocationIds :
           /\ Over(i)
           /\ Len(invocations[i].calls) = 2
           /\ Len(invocations[i].refreshes) = 1

\* C23 (a failed refresh changes nothing): when the first upstream call was
\* answered 401 and the refresh request fails, the step in which it fails
\* ends the invocation with the refresh error, leaves both stores as they
\* were, and the invocation has made one upstream call and makes no other.
RefreshFails(i) == invocations[i].pc = "refresh" /\ invocations'[i].refresh = "failed"

FailedRefreshChangesNothing ==
    [][\A i \in InvocationIds :
          /\ RefreshFails(i) =>
                LET inv == invocations'[i] IN
                /\ Rejected(inv)
                /\ inv.pc = "done" /\ inv.outcome = "error"
                /\ inv.error = "Notion refresh failed"
                /\ NoCredentialWrite
                /\ ~inv.wrote
                /\ Len(inv.calls) = 1 /\ inv.second = -1
          /\ invocations[i].refresh = "failed" => invocations'[i] = invocations[i]]_vars

\* an invocation for ws1 was answered 401, its refresh failed, and the store
\* still holds the record the invocation read
FailedRefreshWitness ==
    \E i \in InvocationIds :
        LET inv == invocations[i] IN
        /\ Ended(inv) /\ Rejected(inv)
        /\ inv.subject = "ws1"
        /\ inv.refresh = "failed"
        /\ inv.error = "Notion refresh failed"
        /\ Len(inv.calls) = 1
        /\ Got(<<"notion", "ws1">>) = inv.rec

\* C24 (the static override bypasses the store): when a static token is
\* configured, an invocation for any tenant sends that token whatever the
\* store holds for the tenant, carries no record, makes no refresh request
\* and no store write, and an answer of 401 ends it with the upstream error
\* after one upstream call.
StaticOverride ==
    [][\A i \in InvocationIds :
          TruthyString(cfg.staticToken) =>
              LET inv == invocations'[i] IN
              /\ Starts(i) =>
                    /\ inv.pc = "call1"
                    /\ inv.token = cfg.staticToken
                    /\ inv.rec = <<>>
                    /\ inv.calls = <<cfg.staticToken>>
              /\ inv # invocations[i] =>
                    /\ NoCredentialWrite
                    /\ inv.refreshes = <<>> /\ inv.refresh = "none" /\ ~inv.wrote
                    /\ Len(inv.calls) = 1
              /\ Finishes(i) /\ inv.first = 401 =>
                    /\ inv.outcome = "error"
                    /\ inv.error = inv.tool \o " failed"
                    /\ inv.second = -1]_vars

\* with a static token set, the store holds a record with a refresh token for
\* ws1 (a callback wrote it), and an invocation for ws1 sent the static token,
\* was answered 401 and ended with the upstream error
StaticOverrideWitness ==
    /\ TruthyString(cfg.staticToken)
    /\ Got(<<"notion", "ws1">>) # <<>>
    /\ TruthyString(Got(<<"notion", "ws1">>)[1].refresh_token)
    /\ \E i \in InvocationIds :
          LET inv == invocations[i] IN
          /\ Ended(inv)
          /\ inv.subject = "ws1"
          /\ inv.calls = <<cfg.staticToken>>
          /\ inv.first = 401
          /\ inv.outcome = "error"
          /\ inv.refreshes = <<>>

\* C25 (no refresh without a refresh token): when the first upstream call is
\* answered 401 and the record the invocation read has no refresh token, the
\* step that receives the answer ends the invocation with the upstream
\* error; it has made no refresh request, no store write and no second
\* upstream call.
FirstAnswer(i) == invocations[i].pc = "call1" /\ invocations'[i].pc # "call1"
WithoutRefreshToken(inv) == inv.rec # <<>> /\ ~TruthyString(inv.rec[1].refresh_token)

NoRefreshWithoutToken ==
    [][\A i \in InvocationIds :
          LET inv == invocations'[i] IN
          FirstAnswer(i) /\ inv.first = 401 /\ WithoutRefreshToken(inv) =>
              /\ inv.pc = "done" /\ inv.outcome = "error"
              /\ inv.error = inv.tool \o " failed"
              /\ inv.refreshes = <<>> /\ inv.refresh = "none"
              /\ ~inv.wrote /\ NoCredentialWrite
              /\ Len(inv.calls) = 1 /\ inv.second = -1]_vars

\* the callback stored a record without a refresh token for the default
\* tenant; an invocation read it, was answered 401 and ended with the
\* upstream error, and the store still holds that record
NoRefreshWithoutTokenWitness ==
    \E i \in InvocationIds :
        LET inv == invocations[i] IN
        /\ Ended(inv)
        /\ inv.first = 401
        /\ WithoutRefreshToken(inv)
        /\ inv.rec[1].access_token = "a0"
        /\ inv.outcome = "error"
        /\ inv.refreshes = <<>>
        /\ Got(<<"notion", "default">>) = inv.rec

\* C26 (persist before retry): the step that issues the retried upstream
\* call has written the refreshed record, so that the store holds the access
\* token the retried call carries; when the retried call then fails, the
\* invocation ends with an error while the record of its tenant holds that
\* new access token (unless another request has written the record since).
IssuesRetry(i) == Len(invocations[i].calls) < 2 /\ Len(invocations'[i].calls) = 2
RetryFails(i) ==
    /\ Finishes(i)
    /\ invocations'[i].refresh = "ok"
    /\ invocations'[i].second \notin {-1, 200}

PersistBeforeRetry ==
    [][\A i \in InvocationIds :
          LET inv == invocations'[i]
              t == TenantOf(inv)
              key == <<"notion", t>>
          IN /\ IssuesRetry(i) =>
                   /\ inv.wrote
                   /\ key \in DOMAIN puts' /\ puts'[key].by = ByInvocation(i)
                   /\ StoredAfter(t) # <<>>
                   /\ StoredAfter(t)[1].access_token = inv.calls[2]
             /\ RetryFails(i) =>
                   /\ inv.outcome = "error"
                   /\ inv.error = inv.tool \o " failed"
                   /\ NoCredentialWrite
                   /\ StoredAfter(t) # <<>>
                   /\ key \in DOMAIN puts
                   /\ puts[key].by = ByInvocation(i) =>
                         StoredAfter(t)[1].access_token = inv.calls[2]]_vars

\* an invocation for ws1 refreshed a1 into a2, its retried call was answered
\* 401 and it ended with an error; the store holds a2 for ws1
PersistBeforeRetryWitness ==
    \E i \in InvocationIds :
        LET inv == invocations[i] IN
        /\ Ended(inv) /\ Rejected(inv)
        /\ inv.subject = "ws1"
        /\ inv.refresh = "ok" /\ inv.second = 401 /\ inv.outcome = "error"
        /\ inv.calls = <<"a1", "a2">>
        /\ Got(<<"notion", "ws1">>) # <<>>
        /\ Got(<<"notion", "ws1">>)[1].access_token = "a2"

====
